---- MODULE Spec2Model ----
(***************************************************************************)
(* Whack-a-mole (src/App.tsx): the round controller of the App component.  *)
(*                                                                         *)
(* Every callback of the component (a click on Start, a click on a mole,   *)
(* the expiry of the hide timeout, a tick of the one-second interval) runs *)
(* to completion on the single JavaScript thread, so each is one action;   *)
(* the state after an action is the state React commits once the updates   *)
(* the callback queued have been applied in the order they were queued.    *)
(*                                                                         *)
(* Values a callback reads through its closure are the values of the       *)
(* render in which the closure was created: the interval callback armed by *)
(* startGame calls the endGame of that render, whose `score` is the score  *)
(* of that render.  The captured value is kept with the pending interval.  *)
(***************************************************************************)
EXTENDS Integers, FiniteSets, Sequences, TLC

\* ---------------------------------------------------------------- constants
GAME_DURATION == 30

HOLE_COUNT == 6

MIN_PEEP_TIME == 400

MAX_PEEP_TIME == 1000

\* Most appearances the hide timer is let to chain in one round (a round of
\* GAME_DURATION seconds holds finitely many appearances of >= MIN_PEEP_TIME).
MaxAppearances == 2

IDLE == "IDLE"

UP == "UP"

WHACKED == "WHACKED"

MoleStatus == {IDLE, UP, WHACKED}

\* null of the two timer refs; timer handles are positive integers
Null == 0

\* initial value of lastHoleRef
NoHole == 0 - 1

Holes == 0 .. (HOLE_COUNT - 1)

Max(a, b) == IF a >= b THEN a ELSE b

\* Math.random() is one of the fractions 0/RandomSteps .. (RandomSteps-1)/
\* RandomSteps of [0, 1)
RandomSteps == 8

\* the largest bound of the ranges randomTime is tried on, besides the
\* configured one
MaxMs == 6

\* no result yet
Pending == 0 - 1

\* Math.round(x) for x = num / den >= 0, den > 0: the nearest integer, a
\* half rounding up
MathRound(num, den) == (2 * num + den) \div (2 * den)

\* randomTime(min, max) where Math.random() returned rnd / RandomSteps
randomTimeSpanPlusOne(min, max, rnd) ==
  MathRound(rnd * (max - min + 1) + min * RandomSteps, RandomSteps)

randomTime(min, max, rnd) ==
  MathRound(rnd * (max - min) + min * RandomSteps, RandomSteps)

NoDraw ==
  [min |-> MIN_PEEP_TIME, max |-> MAX_PEEP_TIME, rnd |-> 0, time |-> Pending]

\* -------------------------------------------------------------------- state
VARIABLES
  moles,         \* useState: hole id -> MoleStatus
  score,         \* useState
  highScore,     \* useState
  timeLeft,      \* useState
  isPlaying,     \* useState
  lastHoleRef,   \* useRef
  isPlayingRef,  \* useRef
  gameTimerRef,  \* useRef: handle of the interval, or Null
  peepTimerRef,  \* useRef: handle of the hide timeout, or Null
  timeouts,      \* the window's pending timeouts: [id, holeIdx]
  intervals,     \* the window's pending intervals: [id, score (captured)]
  lastOp,        \* history: the callback that ran last, with its arguments
                 \* (for the hide timeout: the hole it hides)
  appearances,   \* history: moles shown since the last start of a round
  lastShown,     \* history: the hole of the latest appearance, or NoHole
  ticks,         \* history: firings of the interval since the last start
  timeDraw       \* one call of randomTime: [min, max, rnd, time]

vars == <<moles, score, highScore, timeLeft, isPlaying, lastHoleRef,
          isPlayingRef, gameTimerRef, peepTimerRef, timeouts, intervals,
          lastOp, appearances, lastShown, ticks, timeDraw>>

\* `was` is the status the named mole had when handleWhack was called
Op(name, id, trusted, was) ==
  [op |-> name, id |-> id, isTrusted |-> trusted, was |-> was]

\* the component as mounted
Mounted ==
  /\ moles = [i \in Holes |-> IDLE]
  /\ score = 0
  /\ highScore = 0
  /\ timeLeft = GAME_DURATION
  /\ isPlaying = FALSE
  /\ lastHoleRef = NoHole
  /\ isPlayingRef = FALSE
  /\ gameTimerRef = Null
  /\ peepTimerRef = Null
  /\ timeouts = {}
  /\ intervals = {}
  /\ lastOp = Op("mount", NoHole, FALSE, IDLE)
  /\ appearances = 0
  /\ lastShown = NoHole
  /\ ticks = 0

Init == Mounted /\ timeDraw = NoDraw

\* ------------------------------------------------------------------ helpers
TimerIds(pending) == {t.id : t \in pending}

\* window.setTimeout / window.setInterval: a handle no pending timer has.
\* The handle is any positive integer that is not in the window's map of
\* pending timers; the program only compares handles for equality, and only
\* clears handles of pending timers, so the least free one stands for it.
setTimer(used) == CHOOSE n \in 1 .. (Cardinality(used) + 1) : n \notin used

\* clearTimeout / clearInterval behind `if (ref.current)`
clearTimerNever(pending, ref) == pending

clearTimer(pending, ref) ==
  IF ref # Null THEN {t \in pending : t.id # ref} ELSE pending

\* randomHole: redraws while the drawn hole is lastHoleRef.current, so the
\* call returns any hole id other than lastHoleRef.current.
randomHoleNoRedraw(last) == {i : i \in Holes}

randomHole(last) == {i \in Holes : i # last}

resetBoard == [i \in Holes |-> IDLE]

moleUpKeep(prev, holeIdx) == prev

moleUp(prev, holeIdx) ==
  [m \in Holes |-> IF m = holeIdx THEN UP ELSE prev[m]]

moleDownKeep(prev, holeIdx) == prev

moleDownUnlessWhacked(prev, holeIdx) ==
  [m \in Holes |-> IF m = holeIdx /\ prev[m] = UP THEN IDLE ELSE prev[m]]

moleDown(prev, holeIdx) ==
  [m \in Holes |-> IF m = holeIdx THEN IDLE ELSE prev[m]]

\* the map of handleWhack: the status of each mole, and the score it credits
whackValidAnyShown(prev, id) == prev[id] # IDLE

whackValid(prev, id) == prev[id] = UP

whackMolesKeep(prev, id) == prev

whackMoles(prev, id) ==
  [m \in Holes |-> IF m = id /\ whackValid(prev, m) THEN WHACKED ELSE prev[m]]

whackScoreTwice(prev, id, s) == IF whackValid(prev, id) THEN s + 2 ELSE s

whackScore(prev, id, s) == IF whackValid(prev, id) THEN s + 1 ELSE s

whackIgnoredTrustAll(isTrusted) == ~isPlayingRef

whackIgnored(isTrusted) == ~isTrusted \/ ~isPlayingRef

startGameIgnoredNever == FALSE

startGameIgnored == isPlaying

updateHighScoreLast(prev, s) == s

updateHighScoreAdd(prev, s) == prev + s

updateHighScore(prev, s) == Max(prev, s)

\* the best score the header shows
displayedHighScore(s, best) == Max(s, best)

\* ------------------------------------------------------------------ actions
\* peep() that finds isPlayingRef.current false whatever it is
peepNotPlaying(playing, board, pending, h) ==
  /\ moles' = board
  /\ timeouts' = pending
  /\ UNCHANGED <<lastHoleRef, peepTimerRef>>

\* peep(): `playing` is isPlayingRef.current, `board` and `pending` are the
\* moles and timeouts as the caller has left them, h the hole drawn.
peep(playing, board, pending, h) ==
  IF ~playing
  THEN /\ moles' = board
       /\ timeouts' = pending
       /\ UNCHANGED <<lastHoleRef, peepTimerRef>>
  ELSE /\ h \in randomHole(lastHoleRef)
       /\ lastHoleRef' = h
       /\ moles' = moleUp(board, h)
       /\ peepTimerRef' =
            setTimer(TimerIds(pending) \cup TimerIds(intervals))
       /\ timeouts' = pending \cup {[id |-> peepTimerRef', holeIdx |-> h]}

startGame(h) ==
  /\ IF startGameIgnored
     THEN UNCHANGED <<moles, score, highScore, timeLeft, isPlaying,
                      lastHoleRef, isPlayingRef, gameTimerRef, peepTimerRef,
                      timeouts, intervals, appearances, lastShown, ticks>>
     ELSE /\ score' = 0
          /\ timeLeft' = GAME_DURATION
          /\ isPlaying' = TRUE
          /\ isPlayingRef' = TRUE
          /\ peep(TRUE, resetBoard, timeouts, h)
          /\ gameTimerRef' =
               setTimer(TimerIds(timeouts') \cup TimerIds(intervals))
          /\ intervals' =
               intervals \cup {[id |-> gameTimerRef', score |-> score]}
          /\ appearances' = 1
          /\ lastShown' = h
          /\ ticks' = 0
          /\ UNCHANGED highScore
  /\ UNCHANGED timeDraw

\* what endGame reads and writes, as one value
AppState ==
  [moles |-> moles, score |-> score, highScore |-> highScore,
   timeLeft |-> timeLeft, isPlaying |-> isPlaying,
   lastHoleRef |-> lastHoleRef, isPlayingRef |-> isPlayingRef,
   gameTimerRef |-> gameTimerRef, peepTimerRef |-> peepTimerRef,
   timeouts |-> timeouts, intervals |-> intervals]

\* endGame() of the render whose score is `capturedScore`, run in state st
endGameStateBoardKept(st, capturedScore) ==
  [st EXCEPT
     !.isPlaying = FALSE,
     !.isPlayingRef = FALSE,
     !.intervals = clearTimer(st.intervals, st.gameTimerRef),
     !.timeouts = clearTimer(st.timeouts, st.peepTimerRef),
     !.moles = st.moles,
     !.highScore = updateHighScore(st.highScore, capturedScore)]

endGameStateTimeoutKept(st, capturedScore) ==
  [st EXCEPT
     !.isPlaying = FALSE,
     !.isPlayingRef = FALSE,
     !.intervals = clearTimer(st.intervals, st.gameTimerRef),
     !.moles = resetBoard,
     !.highScore = updateHighScore(st.highScore, capturedScore)]

endGameState(st, capturedScore) ==
  [st EXCEPT
     !.isPlaying = FALSE,
     !.isPlayingRef = FALSE,
     !.intervals = clearTimer(st.intervals, st.gameTimerRef),
     !.timeouts = clearTimer(st.timeouts, st.peepTimerRef),
     !.moles = resetBoard,
     !.highScore = updateHighScore(st.highScore, capturedScore)]

\* endGame() of the render whose score is `capturedScore`; the caller sets
\* timeLeft.
endGame(capturedScore) ==
  LET st == endGameState(AppState, capturedScore) IN
  /\ isPlaying' = st.isPlaying
  /\ isPlayingRef' = st.isPlayingRef
  /\ intervals' = st.intervals
  /\ timeouts' = st.timeouts
  /\ moles' = st.moles
  /\ highScore' = st.highScore
  /\ UNCHANGED <<score, lastHoleRef, gameTimerRef, peepTimerRef,
                 appearances, lastShown>>

\* the updater of setTimeLeft: whether it calls endGame and returns 0
tickExpiresAtZero(prev) == prev <= 0

tickExpires(prev) == prev <= 1

\* one firing of the interval armed by startGame
tick(iv) ==
  /\ iv \in intervals
  /\ ticks' = ticks + 1
  /\ UNCHANGED timeDraw
  /\ IF tickExpires(timeLeft)
     THEN /\ endGame(iv.score)
          /\ timeLeft' = 0
     ELSE /\ timeLeft' = timeLeft - 1
          /\ UNCHANGED <<moles, score, highScore, isPlaying, lastHoleRef,
                         isPlayingRef, gameTimerRef, peepTimerRef, timeouts,
                         intervals, appearances, lastShown>>

\* the expiry of the hide timeout armed by peep for hole t.holeIdx
peepTimeout(t, h) ==
  /\ t \in timeouts
  /\ appearances < MaxAppearances
  /\ peep(isPlayingRef, moleDown(moles, t.holeIdx), timeouts \ {t}, h)
  /\ appearances' = IF isPlayingRef THEN appearances + 1 ELSE appearances
  /\ lastShown' = IF isPlayingRef THEN h ELSE lastShown
  /\ UNCHANGED <<score, highScore, timeLeft, isPlaying, isPlayingRef,
                 gameTimerRef, intervals, ticks, timeDraw>>

handleWhack(id, isTrusted) ==
  /\ IF whackIgnored(isTrusted)
     THEN UNCHANGED <<moles, score>>
     ELSE /\ moles' = whackMoles(moles, id)
          /\ score' = whackScore(moles, id, score)
  /\ UNCHANGED <<highScore, timeLeft, isPlaying, lastHoleRef, isPlayingRef,
                 gameTimerRef, peepTimerRef, timeouts, intervals,
                 appearances, lastShown, ticks, timeDraw>>

\* every callback, with the record of which one ran
Next ==
  \/ \E h \in Holes :
       /\ startGame(h)
       /\ lastOp' = Op("startGame", NoHole, TRUE, IDLE)
  \/ \E iv \in intervals :
       /\ tick(iv)
       /\ lastOp' = Op("tick", NoHole, FALSE, IDLE)
  \/ \E t \in timeouts : \E h \in Holes :
       /\ peepTimeout(t, h)
       /\ lastOp' = Op("peepTimeout", t.holeIdx, FALSE, moles[t.holeIdx])
  \/ \E id \in Holes : \E isTrusted \in BOOLEAN :
       /\ handleWhack(id, isTrusted)
       /\ lastOp' = Op("handleWhack", id, isTrusted, moles[id])

Spec == Init /\ [][Next]_vars

\* ---------------------------------------------------------------- fairness
\* the same callbacks, the record of the last one left out
NextUnlogged ==
  \/ \E h \in Holes : startGame(h) /\ UNCHANGED lastOp
  \/ \E iv \in intervals : tick(iv) /\ UNCHANGED lastOp
  \/ \E t \in timeouts : \E h \in Holes : peepTimeout(t, h) /\ UNCHANGED lastOp
  \/ \E id \in Holes : \E isTrusted \in BOOLEAN :
       handleWhack(id, isTrusted) /\ UNCHANGED lastOp

\* The interval armed by startGame fires every 1000 ms until it is cleared:
\* a pending interval is never left waiting for ever.
FairSpec ==
  /\ Init
  /\ [][NextUnlogged]_vars
  /\ WF_vars(\E iv \in intervals : tick(iv) /\ UNCHANGED lastOp)

\* ------------------------------------------------------------- randomTime
\* The delay peep draws only decides when the hide timeout fires, which
\* Spec leaves open; randomTime is exercised on its own here, on every
\* range min <= max up to MaxMs and on the configured one, for every
\* fraction Math.random() is let to return.
TimeRanges ==
  {r \in (0 .. MaxMs) \X (0 .. MaxMs) : r[1] <= r[2]}
    \cup {<<MIN_PEEP_TIME, MAX_PEEP_TIME>>}

TimeInputs ==
  {[min |-> r[1], max |-> r[2], rnd |-> k, time |-> Pending] :
     r \in TimeRanges, k \in 0 .. (RandomSteps - 1)}

InitTime == Mounted /\ timeDraw \in TimeInputs

drawTime ==
  /\ timeDraw.time = Pending
  /\ timeDraw' =
       [timeDraw EXCEPT
          !.time = randomTime(timeDraw.min, timeDraw.max, timeDraw.rnd)]
  /\ UNCHANGED <<moles, score, highScore, timeLeft, isPlaying, lastHoleRef,
                 isPlayingRef, gameTimerRef, peepTimerRef, timeouts,
                 intervals, lastOp, appearances, lastShown, ticks>>

NextTime == drawTime

SpecTime == InitTime /\ [][NextTime]_vars

\* ------------------------------------------------------------------ claims
\* the steps in which the named callback ran
Ran(name) == lastOp'.op = name

\* the tick that finds timeLeft <= 1 calls endGame: the round ends
RoundEnds == Ran("tick") /\ timeLeft <= 1

\* startGame past its guard: a round begins
RoundBegins == Ran("startGame") /\ ~isPlaying

\* a step in which peep draws a hole and shows a mole
Draws == RoundBegins \/ (Ran("peepTimeout") /\ isPlayingRef)

Shown(board) == {i \in Holes : board[i] # IDLE}

\* C1: when a round ends, highScore becomes the larger of the highScore
\* before and the score accumulated in that round.
C1_BestScoreIsMaxOfFinalScore ==
  [][RoundEnds => highScore' = Max(highScore, score)]_vars

\* C2: while no round is running (before the first start, and from endGame
\* to the next start) neither the hide timeout nor the interval fires, and
\* no step other than a start changes a mole or the score.
C2_NothingAfterStop ==
  [][~isPlayingRef =>
       /\ ~Ran("tick")
       /\ ~Ran("peepTimeout")
       /\ (~Ran("startGame") => UNCHANGED <<moles, score>>)]_vars

\* a trusted click on a mole after a round in which the player scored
C2_Witness ==
  /\ lastOp.op = "handleWhack"
  /\ lastOp.isTrusted
  /\ ~isPlayingRef
  /\ timeLeft = 0
  /\ score > 0

\* C3: in every reachable state at most one mole is not IDLE (so at most
\* one is UP).
C3_AtMostOneShown == Cardinality(Shown(moles)) <= 1

\* the hide timeout has hidden one mole and shown the next
C3_Witness ==
  /\ lastOp.op = "peepTimeout"
  /\ appearances = 2
  /\ \E i \in Holes : moles[i] = UP /\ i # lastOp.id

\* C4: a trusted click on a mole that is IDLE or WHACKED changes neither
\* the score nor any mole, and the score never exceeds the number of moles
\* shown in the round.
C4_OneCreditPerAppearance ==
  /\ [](score <= appearances)
  /\ [][(Ran("handleWhack") /\ lastOp'.isTrusted /\ moles[lastOp'.id] # UP)
          => UNCHANGED <<moles, score>>]_vars

\* a second trusted click on the mole already whacked, every appearance of
\* the round having been credited
C4_Witness ==
  /\ lastOp.op = "handleWhack"
  /\ lastOp.isTrusted
  /\ lastOp.was = WHACKED
  /\ isPlayingRef
  /\ score = appearances

\* C5: a trusted click, while a round is running, on the mole that is UP
\* adds exactly 1 to the score and makes that mole WHACKED, the others
\* staying as they were.
C5_HitCreditsVisible ==
  [][(Ran("handleWhack") /\ lastOp'.isTrusted /\ isPlayingRef
        /\ moles[lastOp'.id] = UP)
       => /\ score' = score + 1
          /\ moles' = [moles EXCEPT ![lastOp'.id] = WHACKED]]_vars

\* a trusted click has found its mole UP, in the second appearance
C5_Witness ==
  /\ lastOp.op = "handleWhack"
  /\ lastOp.isTrusted
  /\ lastOp.was = UP
  /\ moles[lastOp.id] = WHACKED
  /\ appearances = 2
  /\ score = 2

\* C6 as stated: every step that changes the score is taken in a running
\* round and raises it by exactly 1, and a click while no round is running
\* changes nothing.
C6_ScoreOnlyRisesByOneWhileRunning ==
  /\ [][score' # score => (isPlaying /\ score' = score + 1)]_vars
  /\ [][(Ran("handleWhack") /\ ~isPlaying) => UNCHANGED <<moles, score>>]_vars

\* C6 amended: the score changes only when startGame begins a round, which
\* sets it to 0, or, in a running round, by exactly 1 in a handleWhack; a
\* click while no round is running changes nothing.
C6_ScoreOnlyRisesByOneOrResets ==
  /\ [][score' # score =>
          \/ (RoundBegins /\ score' = 0)
          \/ (Ran("handleWhack") /\ isPlaying /\ score' = score + 1)]_vars
  /\ [][(Ran("handleWhack") /\ ~isPlaying) => UNCHANGED <<moles, score>>]_vars

\* a round has just begun whose predecessor ended with a positive score
C6_Witness ==
  /\ lastOp.op = "startGame"
  /\ score = 0
  /\ \E iv \in intervals : iv.score > 0

\* C7: no step lowers highScore.
C7_BestScoreNeverDecreases == [][highScore' >= highScore]_vars

\* a round has ended below the best score, which stays
C7_Witness ==
  /\ lastOp.op = "tick"
  /\ ~isPlaying
  /\ highScore > 0
  /\ score < highScore

\* C8: the hole of every appearance differs from the hole of the appearance
\* before it, within a round and from one round to the next.
C8_NoRepeatedHole ==
  [][Draws => (moles'[lastShown'] = UP /\ lastShown' # lastShown)]_vars

\* the first appearance of a later round, drawn after an earlier one
C8_Witness ==
  /\ lastOp.op = "startGame"
  /\ appearances = 1
  /\ moles[lastShown] = UP
  /\ \E iv \in intervals : iv.score > 0

\* C9: handleWhack with isTrusted false changes neither the score nor any
\* mole, in any state.
C9_UntrustedHitIgnored ==
  [][(Ran("handleWhack") /\ ~lastOp'.isTrusted)
       => UNCHANGED <<moles, score>>]_vars

\* an untrusted click on the mole that is UP in a running round
C9_Witness ==
  /\ lastOp.op = "handleWhack"
  /\ ~lastOp.isTrusted
  /\ lastOp.was = UP
  /\ isPlayingRef
  /\ moles[lastOp.id] = UP

\* C10: startGame in a running round changes nothing: not the score, the
\* time left or a mole, and it arms neither a timeout nor an interval.
C10_StartWhileRunningIgnored ==
  [][(Ran("startGame") /\ isPlaying)
       => UNCHANGED <<moles, score, highScore, timeLeft, isPlaying,
                      isPlayingRef, lastHoleRef, gameTimerRef, peepTimerRef,
                      timeouts, intervals>>]_vars

\* startGame called in the middle of a round
C10_Witness ==
  /\ lastOp.op = "startGame"
  /\ isPlaying
  /\ timeLeft < GAME_DURATION
  /\ score > 0
  /\ Cardinality(timeouts) = 1
  /\ Cardinality(intervals) = 1

\* the scores an endGame closure can hold: the score of the render that
\* armed a pending interval, or the score of the current render
CapturedScores == {score} \cup {iv.score : iv \in intervals}

\* C11: endGame run twice in a row leaves isPlaying, score, timeLeft, the
\* moles, highScore, the refs and the pending timers as endGame run once
\* leaves them, from every reachable state.
C11_StopIdempotent ==
  \A c \in CapturedScores :
    endGameState(endGameState(AppState, c), c) = endGameState(AppState, c)

\* endGame has just ended a round with a best score on record; a second
\* endGame changes nothing
C11_Witness ==
  /\ lastOp.op = "tick"
  /\ ~isPlaying
  /\ highScore > 0
  /\ score > 0
  /\ \A c \in CapturedScores : endGameState(AppState, c) = AppState

\* C12: in a round timeLeft is the duration less the ticks so far; every
\* tick is taken in a running round, finds timeLeft >= 1 and lowers it by
\* exactly 1; the tick that reaches 0, and only that one, ends the round,
\* and leaves no interval pending, so no tick follows it.
C12_ClockCountsDown ==
  /\ [](timeLeft >= 0)
  /\ [](isPlaying => timeLeft = GAME_DURATION - ticks)
  /\ [][Ran("tick") =>
          /\ isPlaying
          /\ timeLeft >= 1
          /\ timeLeft' = timeLeft - 1
          /\ (timeLeft' = 0 <=> ~isPlaying')
          /\ (timeLeft' = 0 => intervals' = {})
          /\ (timeLeft' > 0 => intervals' = intervals)]_vars

\* the tick that reached 0 has ended the round
C12_Witness ==
  /\ lastOp.op = "tick"
  /\ timeLeft = 0
  /\ ticks = GAME_DURATION
  /\ ~isPlaying
  /\ intervals = {}

\* C13: the step in which startGame begins a round, the first or a later
\* one, ends with score 0, timeLeft the configured duration, the round
\* running, exactly one mole UP and every other mole IDLE.
C13_StartResetsRound ==
  [][RoundBegins =>
       /\ score' = 0
       /\ timeLeft' = GAME_DURATION
       /\ isPlaying'
       /\ isPlayingRef'
       /\ \E i \in Holes :
            /\ moles'[i] = UP
            /\ \A j \in Holes \ {i} : moles'[j] = IDLE]_vars

\* a later round has just begun, after a round that ran to its end with a
\* positive score
C13_Witness ==
  /\ lastOp.op = "startGame"
  /\ isPlaying
  /\ timeLeft = GAME_DURATION
  /\ ticks = 0
  /\ \E iv \in intervals : iv.score > 0

\* C14 (under SpecTime): the duration randomTime returns is an integer of
\* [min, max], both ends included, for every range min <= max and every
\* value of the random source.
C14_DurationInRange ==
  timeDraw.time # Pending =>
    /\ timeDraw.time \in Int
    /\ timeDraw.min <= timeDraw.time
    /\ timeDraw.time <= timeDraw.max

\* a duration drawn for the configured range, rounded from a fraction
C14_Witness ==
  /\ timeDraw.min = MIN_PEEP_TIME
  /\ timeDraw.max = MAX_PEEP_TIME
  /\ timeDraw.rnd = RandomSteps - 1
  /\ timeDraw.time # Pending
  /\ timeDraw.time > MIN_PEEP_TIME
  /\ timeDraw.time < MAX_PEEP_TIME

\* C15 (under FairSpec): every running round ends, with timeLeft 0 and all
\* moles IDLE; a round is still running before its GAME_DURATION-th tick and
\* has ended with it, whatever clicks and hide timeouts come in between.
C15_RoundEnds ==
  /\ isPlaying ~> (~isPlaying /\ timeLeft = 0 /\ moles = resetBoard)
  /\ [](isPlaying => ticks < GAME_DURATION)
  /\ [](~isPlaying /\ ticks > 0 =>
          /\ ticks = GAME_DURATION
          /\ timeLeft = 0
          /\ moles = resetBoard)

\* a round has ended at its last tick after a hit and a hide timeout
C15_Witness ==
  /\ ~isPlaying
  /\ ticks = GAME_DURATION
  /\ timeLeft = 0
  /\ moles = resetBoard
  /\ appearances = 2
  /\ score = 1

\* C16: handleWhack leaves the pending hide timeout, the handle kept for it
\* and timeLeft as they were; the hide timeout, when it fires, leaves its
\* mole IDLE whether it found it UP or WHACKED.
C16_HitLeavesTimerAlone ==
  /\ [][Ran("handleWhack") =>
          UNCHANGED <<timeouts, peepTimerRef, intervals, timeLeft>>]_vars
  /\ [][Ran("peepTimeout") =>
          /\ lastOp'.was \in {UP, WHACKED}
          /\ \A t \in timeouts : moles'[t.holeIdx] = IDLE]_vars

\* the hide timeout has hidden a mole that had been whacked
C16_Witness ==
  /\ lastOp.op = "peepTimeout"
  /\ lastOp.was = WHACKED
  /\ moles[lastOp.id] = IDLE
  /\ score > 0
  /\ Cardinality(timeouts) = 1

\* C17: in every reachable state at most one hide timeout is pending, and
\* its handle is the one peepTimerRef holds, so that endGame clears it.
C17_OneTimerPending ==
  /\ Cardinality(timeouts) <= 1
  /\ \A t \in timeouts : t.id = peepTimerRef

\* a later round, after its first hide timeout: one timeout pending, under
\* the handle in peepTimerRef
C17_Witness ==
  /\ isPlaying
  /\ appearances = 2
  /\ \E iv \in intervals : iv.score > 0
  /\ \E t \in timeouts : timeouts = {t} /\ t.id = peepTimerRef

\* C18 as stated: whenever no round is running, the round that startGame
\* begins may show any hole first, the hole shown last in the round before
\* included.
C18_FirstDrawUnconstrained ==
  ~isPlaying => \A h \in Holes : ENABLED startGame(h)

\* C18 amended: only the first round after mount may show any hole first;
\* a later round may show first any hole except the one shown last in the
\* round before it (lastHoleRef is not reset by startGame).
C18_FirstDrawAvoidsLastShown ==
  ~isPlaying => \A h \in Holes : (ENABLED startGame(h)) <=> (h # lastShown)

\* a round has ended and the next startGame is about to draw
C18_Witness ==
  /\ ~isPlaying
  /\ timeLeft = 0
  /\ ticks = GAME_DURATION
  /\ lastShown \in Holes
  /\ lastHoleRef = lastShown

\* C19: while a round is running exactly one mole is UP or WHACKED in
\* every state between two callbacks: the hide timeout hides its mole and
\* shows the next in one step.
C19_NoGapWhileRunning == isPlaying => Cardinality(Shown(moles)) = 1

\* the hide timeout has replaced a whacked mole by the next one
C19_Witness ==
  /\ lastOp.op = "peepTimeout"
  /\ lastOp.was = WHACKED
  /\ isPlaying
  /\ Shown(moles) = {lastShown}
  /\ lastShown # lastOp.id

\* C20: the best score displayed, Math.max(score, highScore), is lowered by
\* no step, the start of a new round included.
C20_DisplayedBestNeverDecreases ==
  [][displayedHighScore(score', highScore')
       >= displayedHighScore(score, highScore)]_vars

====
